---- MODULE Spec2Model ----
(***************************************************************************)
(* Context (src/karma.conf.js, class Context): the application state       *)
(* container of the image viewer.  It owns the ImageConfig map, the        *)
(* selection, the useMDI flag and the registry of key handlers that the    *)
(* page's keydown hook dispatches to.                                      *)
(*                                                                         *)
(* JavaScript values are records [type, n, half]: type is what typeof /    *)
(* instanceof tell apart, n the integer part, and half marks the number    *)
(* n + 0.5 (a number that is no integer).                                  *)
(***************************************************************************)
EXTENDS Integers, Sequences, FiniteSets, TLC

VARIABLES
    pc,               \* "none": no Context yet; "live": constructed; "failed": constructor threw
    eventbus,         \* this.eventbus
    useMDI,           \* this.useMDI
    image_configs,    \* this.image_configs: the Map's keys in insertion order
    selected_config,  \* this.selected_config: Null or a number
    key_listeners,    \* this.key_listeners: key code -> handler
    onkeydown,        \* window.onkeydown: Null or the hook, a function of some Context
    next_id,          \* the id the next ImageConfig gets
    last,             \* the latest call: what it was given, returned, published and hooked
    \* the page around the Context: every Context constructed in it, and the
    \* Regions components
    contexts,         \* the number of Contexts constructed in the page
    registries,       \* registries[c]: the key_listeners of the page's c-th Context
    injected,         \* the Context the Regions components were injected with (0: none yet)
    attached,         \* the Regions components attached and not yet detached
    ev,               \* the latest call or key event of the page, and what it did
    \* the server parameter
    server            \* optParams[REQUEST_PARAMS.SERVER], and this.server once constructed

ctxvars == <<pc, eventbus, useMDI, image_configs, selected_config,
             key_listeners, next_id, last>>

pagevars == <<contexts, registries, injected, attached, ev>>

\* what the methods of one Context leave alone
outside == <<pagevars, server>>

vars == <<ctxvars, onkeydown, pagevars, server>>

----------------------------------------------------------------------------
(* Bounds *)

\* ImageConfig instances created over a run; callers hand in the integers below it
MaxConfigs == 3

----------------------------------------------------------------------------
(* JavaScript values *)

Null == [type |-> "null", n |-> 0, half |-> FALSE]
Undefined == [type |-> "undefined", n |-> 0, half |-> FALSE]
Str == [type |-> "string", n |-> 0, half |-> FALSE]
Num(k) == [type |-> "number", n |-> k, half |-> FALSE]
Half(k) == [type |-> "number", n |-> k, half |-> TRUE]
Conf(id) == [type |-> "ImageConfig", n |-> id, half |-> FALSE]

\* the arrow function that establishKeyDownListener of Context c creates: its
\* this is Context c
Closure(c) == [type |-> "function", n |-> c, half |-> FALSE]

\* typeof v === 'number'
IsNumber(v) == v.type = "number"

\* v < 0 for a number v (n + 0.5 < 0 exactly when n < 0)
Negative(v) == v.n < 0

\* v instanceof ImageConfig
IsImageConfig(v) == v.type = "ImageConfig"

\* truthiness, as the && of removeImageConfig tests it
Truthy(v) ==
    CASE v.type \in {"null", "undefined"} -> FALSE
      [] v.type = "number" -> v.n # 0 \/ v.half
      [] OTHER -> TRUE

\* a === b
StrictEq(a, b) == a = b

\* the event buses a caller may hand to the constructor
EventBuses == {"EventAggregator", "null"}

\* ids a caller may hand in
IdArgs == {Null, Str, Num(-1), Half(0)} \cup {Num(k) : k \in 0..(MaxConfigs - 1)}

\* references to ImageConfig instances created so far (held or removed)
Refs == {Conf(id) : id \in 0..(next_id - 1)}

----------------------------------------------------------------------------
(* The Map image_configs *)

Keys(m) == {m[i] : i \in DOMAIN m}

\* Map.get
MapGet(m, key) ==
    IF IsNumber(key) /\ ~key.half /\ key.n \in Keys(m) THEN Conf(key.n) ELSE Undefined

\* Map.delete
MapDelete(m, id) == SelectSeq(m, LAMBDA k : k # id)

\* Map.set of a key (a new key goes last)
MapSet(m, id) == IF id \in Keys(m) THEN m ELSE Append(m, id)

----------------------------------------------------------------------------
(* The Context as one record, threaded through the methods *)

This ==
    [eventbus |-> eventbus, useMDI |-> useMDI, image_configs |-> image_configs,
     selected_config |-> selected_config, next_id |-> next_id,
     ret |-> Undefined, thrown |-> FALSE, published |-> <<>>, hooks |-> <<>>]

\* the fields of a Context whose field initialisers have just run
Fresh(bus) ==
    [eventbus |-> bus, useMDI |-> FALSE, image_configs |-> <<>>,
     selected_config |-> Null, next_id |-> next_id,
     ret |-> Undefined, thrown |-> FALSE, published |-> <<>>, hooks |-> <<>>]

Return(s, v) == [s EXCEPT !.ret = v]

\* what a hook of config id can see of the Context when it runs
Hook(s, name, id) ==
    [hook |-> name, conf |-> id,
     in_map |-> id \in Keys(s.image_configs),
     selected |-> s.selected_config]

\* ImageConfig.bind
bind(s, id) == [s EXCEPT !.hooks = Append(@, Hook(s, "bind", id))]

\* ImageConfig.unbind
unbind(s, id) == [s EXCEPT !.hooks = Append(@, Hook(s, "unbind", id))]

\* new ImageConfig(this, image_id): the instance gets a fresh id
NewImageConfig(s) == [s EXCEPT !.next_id = @ + 1, !.ret = Conf(s.next_id)]

\* publish: delegates to eventbus.publish, which only an EventAggregator has
publish(s, topic, payload) ==
    IF s.eventbus = "EventAggregator"
    THEN [s EXCEPT !.published = Append(@, [topic |-> topic, image_config |-> payload])]
    ELSE [s EXCEPT !.thrown = TRUE]

\* image_config.image_info.requestData(): the backend request of config id
requestData(s, id) == [s EXCEPT !.hooks = Append(@, Hook(s, "requestData", id))]

getImageConfig(s, id, forceRequest) ==
    IF ~IsNumber(id) \/ Negative(id) THEN Return(s, Null)
    ELSE LET image_config == MapGet(s.image_configs, id)
         IN IF ~IsImageConfig(image_config) THEN Return(s, Null)
            ELSE IF forceRequest
                 THEN Return(requestData(s, image_config.n), image_config)
                 ELSE Return(s, image_config)

getSelectedImageConfig(s) ==
    IF ~IsNumber(s.selected_config) THEN Null
    ELSE getImageConfig(s, s.selected_config, FALSE).ret

removeImageConfig(s, image_config_or_id) ==
    LET conf == IF IsImageConfig(image_config_or_id) THEN image_config_or_id
                ELSE IF IsNumber(image_config_or_id)
                     THEN MapGet(s.image_configs, image_config_or_id)
                     ELSE Null
    IN IF ~IsImageConfig(conf) THEN Return(s, Undefined)
       ELSE LET s1 == [s EXCEPT !.image_configs = MapDelete(@, conf.n)]
                selId == getSelectedImageConfig(s1)
                s2 == IF Truthy(selId) /\ StrictEq(selId, Num(conf.n))
                      THEN [s1 EXCEPT !.selected_config = Null]
                      ELSE s1
            IN Return(unbind(s2, conf.n), Undefined)

\* selectConfig without the lookup of id in image_configs
selectConfig_NoLookup(s, id) ==
    IF ~IsNumber(id) \/ Negative(id)
    THEN Return(s, Null)
    ELSE LET s1 == [s EXCEPT !.selected_config = id]
         IN IF s1.useMDI
            THEN Return(publish(s1, "IMAGE_CONFIG_SELECT", s1.selected_config), Undefined)
            ELSE Return(s1, Undefined)

\* selectConfig that publishes whatever useMDI is
selectConfig_AlwaysPublishes(s, id) ==
    IF ~IsNumber(id) \/ Negative(id) \/ ~IsImageConfig(MapGet(s.image_configs, id))
    THEN Return(s, Null)
    ELSE LET s1 == [s EXCEPT !.selected_config = id]
         IN Return(publish(s1, "IMAGE_CONFIG_SELECT", s1.selected_config), Undefined)

selectConfig(s, id) ==
    IF ~IsNumber(id) \/ Negative(id) \/ ~IsImageConfig(MapGet(s.image_configs, id))
    THEN Return(s, Null)
    ELSE LET s1 == [s EXCEPT !.selected_config = id]
         IN IF s1.useMDI
            THEN Return(publish(s1, "IMAGE_CONFIG_SELECT", s1.selected_config), Undefined)
            ELSE Return(s1, Undefined)

\* the loop with an iterator that a deletion moves one entry ahead
RECURSIVE RemoveEach_SkipsNext(_, _)
RemoveEach_SkipsNext(s, todo) ==
    IF todo = <<>> THEN s
    ELSE LET s1 == removeImageConfig(s, Num(Head(todo)))
         IN IF Len(todo) = 1 THEN s1
            ELSE RemoveEach_SkipsNext(s1, Tail(Tail(todo)))

\* for (let [id, conf] of this.image_configs) this.removeImageConfig(id, conf):
\* the Map's iterator is live, so an entry deleted before it is reached is skipped
RECURSIVE RemoveEach(_, _)
RemoveEach(s, todo) ==
    IF todo = <<>> THEN s
    ELSE IF Head(todo) \in Keys(s.image_configs)
         THEN RemoveEach(removeImageConfig(s, Num(Head(todo))), Tail(todo))
         ELSE RemoveEach(s, Tail(todo))

\* addImageConfig without the removal of the other configs
addImageConfig_KeepsOthers(s, image_id) ==
    IF ~IsNumber(image_id) \/ Negative(image_id) THEN Return(s, Null)
    ELSE LET s2 == NewImageConfig(s)
             image_config == s2.ret
             s3 == [s2 EXCEPT !.image_configs = MapSet(@, image_config.n)]
             s4 == selectConfig(s3, Num(image_config.n))
         IN IF s4.thrown THEN s4
            ELSE Return(bind(s4, image_config.n), image_config)

\* addImageConfig that tests image_id only after the removal of the other configs
addImageConfig_RemovesFirst(s, image_id) ==
    LET s1 == IF ~s.useMDI THEN RemoveEach(s, s.image_configs) ELSE s
    IN IF ~IsNumber(image_id) \/ Negative(image_id) THEN Return(s1, Null)
       ELSE LET s2 == NewImageConfig(s1)
                image_config == s2.ret
                s3 == [s2 EXCEPT !.image_configs = MapSet(@, image_config.n)]
                s4 == selectConfig(s3, Num(image_config.n))
            IN IF s4.thrown THEN s4
               ELSE Return(bind(s4, image_config.n), image_config)

addImageConfig(s, image_id) ==
    IF ~IsNumber(image_id) \/ Negative(image_id) THEN Return(s, Null)
    ELSE LET s1 == IF ~s.useMDI THEN RemoveEach(s, s.image_configs) ELSE s
             s2 == NewImageConfig(s1)
             image_config == s2.ret
             s3 == [s2 EXCEPT !.image_configs = MapSet(@, image_config.n)]
             s4 == selectConfig(s3, Num(image_config.n))
         IN IF s4.thrown THEN s4
            ELSE Return(bind(s4, image_config.n), image_config)

\* typeof v: whatever v is, the result is a string primitive
TypeOf(v) == "string"

\* v instanceof EventAggregator, v given by its kind
InstanceOfEventAggregator(v) == v = "EventAggregator"

\* the constructor's test of its event bus: typeof eventbus instanceof EventAggregator
\* (typeof binds tighter than instanceof)
InvalidEventAggregator(bus) == InstanceOfEventAggregator(TypeOf(bus))

\* the constructor, up to establishKeyDownListener
construct(bus, initial_image_id) ==
    IF InvalidEventAggregator(bus) THEN [Fresh(bus) EXCEPT !.thrown = TRUE]
    ELSE LET s1 == addImageConfig(Fresh(bus), initial_image_id)
             initial_image_config == s1.ret
         IN IF s1.thrown THEN s1
            ELSE IF ~IsImageConfig(initial_image_config)
                 THEN [s1 EXCEPT !.thrown = TRUE]   \* null.id
                 ELSE [s1 EXCEPT !.selected_config = Num(initial_image_config.n)]

\* establishKeyDownListener without the test of window.onkeydown
establishKeyDownListener_Always(w, this) == Closure(this)

\* establishKeyDownListener of Context this: window.onkeydown after the call
establishKeyDownListener(w, this) == IF w = Null THEN Closure(this) ELSE w

----------------------------------------------------------------------------
(* Key handlers *)

KeyCodes == {68}
Handlers == {"h1", "h2"}

\* what a caller may hand to addKeyListener / removeKeyListener as key
KeyArgs == {Str} \cup {Num(k) : k \in KeyCodes}

\* ... and as action ("none": not a function)
ActionArgs == Handlers \cup {"none"}

\* the Regions components of the page; each registers, for every one of its
\* keys, a handler of its own, named like the component
Components == {"r1", "r2"}

\* typeof action === 'function'
IsFunction(action) == action \in Handlers \cup Components

\* addKeyListener that keeps a handler already registered for the key
addKeyListener_KeepsFirst(kl, key, action) ==
    IF ~IsNumber(key) \/ ~IsFunction(action) \/ key.n \in DOMAIN kl THEN kl
    ELSE [k \in DOMAIN kl \cup {key.n} |-> IF k = key.n THEN action ELSE kl[k]]

addKeyListener(kl, key, action) ==
    IF ~IsNumber(key) \/ ~IsFunction(action) THEN kl
    ELSE [k \in DOMAIN kl \cup {key.n} |-> IF k = key.n THEN action ELSE kl[k]]

removeKeyListener(kl, key) ==
    IF ~IsNumber(key) THEN kl
    ELSE [k \in DOMAIN kl \ {key.n} |-> kl[k]]

----------------------------------------------------------------------------
(* The state machine *)

Call(op, arg, s) ==
    [op |-> op, arg |-> arg, bus |-> s.eventbus, ret |-> s.ret, thrown |-> s.thrown,
     published |-> s.published, hooks |-> s.hooks]

NoCall == [op |-> "none", arg |-> Null, bus |-> "null", ret |-> Undefined,
           thrown |-> FALSE, published |-> <<>>, hooks |-> <<>>]

\* the Context's fields after a method ran on it
Commit(s) ==
    /\ image_configs' = s.image_configs
    /\ selected_config' = s.selected_config
    /\ next_id' = s.next_id

\* the hook returns without having done anything
Ignored(caught) ==
    [prevented |-> FALSE, invoked |-> <<>>, caught |-> caught,
     ret |-> "undefined", escaped |-> FALSE]

\* no key event
NoEvent == [ctrlKey |-> FALSE, tagName |-> "none", keyCode |-> 0]

\* no call or key event of the page
NoEv == [op |-> "none", ctx |-> 0, key |-> Null, action |-> "none",
         event |-> NoEvent, throws |-> FALSE, res |-> Ignored(FALSE)]

\* no server parameter given, and this.server not yet assigned
NoServer == [param |-> [type |-> "undefined", parts |-> <<>>], stored |-> <<>>,
             done |-> FALSE]

\* the state before any construction, but for the server parameter
Start ==
    /\ pc = "none"
    /\ eventbus = "null"
    /\ useMDI = FALSE
    /\ image_configs = <<>>
    /\ selected_config = Null
    /\ key_listeners = <<>>
    /\ onkeydown = Null
    /\ next_id = 0
    /\ last = NoCall
    /\ contexts = 0
    /\ registries = <<>>
    /\ injected = 0
    /\ attached = {}
    /\ ev = NoEv

Init == Start /\ server = NoServer

\* new Context(bus, initial_image_id)
Construct ==
    \E bus \in EventBuses, initial_image_id \in IdArgs :
        /\ pc \in {"none", "failed"}
        /\ LET s == construct(bus, initial_image_id)
           IN /\ last' = Call("constructor", initial_image_id, s)
              /\ IF s.thrown
                 THEN /\ pc' = "failed"
                      /\ next_id' = s.next_id
                      /\ UNCHANGED <<eventbus, useMDI, image_configs,
                                     selected_config, onkeydown>>
                 ELSE /\ pc' = "live"
                      /\ eventbus' = bus
                      /\ useMDI' = s.useMDI
                      /\ Commit(s)
                      /\ onkeydown' = establishKeyDownListener(onkeydown, 1)
        /\ UNCHANGED key_listeners
        /\ UNCHANGED outside

AddImageConfig ==
    \E image_id \in IdArgs :
        /\ pc = "live"
        /\ (IsNumber(image_id) /\ ~Negative(image_id)) => next_id < MaxConfigs
        /\ LET s == addImageConfig(This, image_id)
           IN /\ Commit(s)
              /\ last' = Call("addImageConfig", image_id, s)
        /\ UNCHANGED <<pc, eventbus, useMDI, key_listeners, onkeydown>>
        /\ UNCHANGED outside

RemoveImageConfig ==
    \E image_config_or_id \in IdArgs \cup Refs :
        /\ pc = "live"
        /\ LET s == removeImageConfig(This, image_config_or_id)
           IN /\ Commit(s)
              /\ last' = Call("removeImageConfig", image_config_or_id, s)
        /\ UNCHANGED <<pc, eventbus, useMDI, key_listeners, onkeydown>>
        /\ UNCHANGED outside

SelectConfig ==
    \E id \in IdArgs :
        /\ pc = "live"
        /\ LET s == selectConfig(This, id)
           IN /\ Commit(s)
              /\ last' = Call("selectConfig", id, s)
        /\ UNCHANGED <<pc, eventbus, useMDI, key_listeners, onkeydown>>
        /\ UNCHANGED outside

GetImageConfig ==
    \E id \in IdArgs, forceRequest \in BOOLEAN :
        /\ pc = "live"
        /\ last' = Call("getImageConfig", id, getImageConfig(This, id, forceRequest))
        /\ UNCHANGED <<pc, eventbus, useMDI, image_configs, selected_config,
                       key_listeners, onkeydown, next_id>>
        /\ UNCHANGED outside

\* context.useMDI = flag, from outside
SetUseMDI ==
    \E flag \in BOOLEAN :
        /\ pc = "live"
        /\ useMDI' = flag
        /\ last' = [NoCall EXCEPT !.op = "useMDI"]
        /\ UNCHANGED <<pc, eventbus, image_configs, selected_config,
                       key_listeners, onkeydown, next_id>>
        /\ UNCHANGED outside

AddKeyListener ==
    \E key \in KeyArgs, action \in ActionArgs :
        /\ pc = "live"
        /\ key_listeners' = addKeyListener(key_listeners, key, action)
        /\ last' = [NoCall EXCEPT !.op = "addKeyListener"]
        /\ UNCHANGED <<pc, eventbus, useMDI, image_configs, selected_config,
                       onkeydown, next_id>>
        /\ UNCHANGED outside

RemoveKeyListener ==
    \E key \in KeyArgs :
        /\ pc = "live"
        /\ key_listeners' = removeKeyListener(key_listeners, key)
        /\ last' = [NoCall EXCEPT !.op = "removeKeyListener"]
        /\ UNCHANGED <<pc, eventbus, useMDI, image_configs, selected_config,
                       onkeydown, next_id>>
        /\ UNCHANGED outside

Next ==
    \/ Construct
    \/ AddImageConfig
    \/ RemoveImageConfig
    \/ SelectConfig
    \/ GetImageConfig
    \/ SetUseMDI
    \/ AddKeyListener
    \/ RemoveKeyListener

Spec == Init /\ [][Next]_vars

----------------------------------------------------------------------------
(* The page: its Contexts, the keydown hook and the Regions components *)

\* Contexts constructed in one page
MaxContexts == 2

\* Regions.key_actions: the key codes, in the order of the list
key_actions == <<68, 85, 83, 89, 90>>

\* the key codes of the key events
EventKeys == {68, 90}

\* event.target.tagName ("none": the target has no tagName)
TagNames == {"INPUT", "input", "DIV", "none"}

Events == [ctrlKey : BOOLEAN, tagName : TagNames, keyCode : EventKeys]

\* String.toUpperCase, on the tag names
ToUpperCase(tag) == IF tag = "input" THEN "INPUT" ELSE tag

\* the hook without its try / catch
keydownHook_NoCatch(kl, event, handlerThrows) ==
    IF ~event.ctrlKey THEN Ignored(FALSE)
    ELSE IF event.tagName = "none" THEN [Ignored(FALSE) EXCEPT !.escaped = TRUE]
    ELSE IF ToUpperCase(event.tagName) = "INPUT" THEN Ignored(FALSE)
    ELSE IF event.keyCode \in DOMAIN kl
         THEN [prevented |-> TRUE, invoked |-> <<kl[event.keyCode]>>,
               caught |-> FALSE,
               ret |-> IF handlerThrows THEN "undefined" ELSE "false",
               escaped |-> handlerThrows]
         ELSE Ignored(FALSE)

\* the hook that does not test the target
keydownHook_NoTargetTest(kl, event, handlerThrows) ==
    IF ~event.ctrlKey THEN Ignored(FALSE)
    ELSE IF event.keyCode \in DOMAIN kl
         THEN [prevented |-> TRUE, invoked |-> <<kl[event.keyCode]>>,
               caught |-> handlerThrows,
               ret |-> IF handlerThrows THEN "undefined" ELSE "false",
               escaped |-> FALSE]
         ELSE Ignored(FALSE)

\* the function assigned to window.onkeydown, run on event with the
\* key_listeners kl of its Context; handlerThrows: the handler it invokes throws.
\* A read of tagName.toUpperCase on a target without tagName throws inside the try.
keydownHook(kl, event, handlerThrows) ==
    IF ~event.ctrlKey THEN Ignored(FALSE)
    ELSE IF event.tagName = "none" THEN Ignored(TRUE)
    ELSE IF ToUpperCase(event.tagName) = "INPUT" THEN Ignored(FALSE)
    ELSE IF event.keyCode \in DOMAIN kl
         THEN [prevented |-> TRUE, invoked |-> <<kl[event.keyCode]>>,
               caught |-> handlerThrows,
               ret |-> IF handlerThrows THEN "undefined" ELSE "false",
               escaped |-> FALSE]
         ELSE Ignored(FALSE)

\* Regions.attached of component r: key_actions.map(addKeyListener)
RECURSIVE RegionsAttach(_, _, _)
RegionsAttach(kl, actions, r) ==
    IF actions = <<>> THEN kl
    ELSE RegionsAttach(addKeyListener(kl, Num(Head(actions)), r), Tail(actions), r)

\* Regions.detached that leaves the first key registered
RECURSIVE RegionsDetach_SkipsFirst(_, _)
RegionsDetach_SkipsFirst(kl, actions) ==
    IF Len(actions) <= 1 THEN kl
    ELSE RegionsDetach_SkipsFirst(removeKeyListener(kl, Num(actions[Len(actions)])),
                                  SubSeq(actions, 1, Len(actions) - 1))

\* Regions.detached: key_actions.map(removeKeyListener)
RECURSIVE RegionsDetach(_, _)
RegionsDetach(kl, actions) ==
    IF actions = <<>> THEN kl
    ELSE RegionsDetach(removeKeyListener(kl, Num(Head(actions))), Tail(actions))

\* new Context(bus, initial_image_id), of the page's next Context
NewContext ==
    \E bus \in EventBuses, initial_image_id \in {Null, Num(0)} :
        /\ contexts < MaxContexts
        /\ IF construct(bus, initial_image_id).thrown
           THEN /\ ev' = [NoEv EXCEPT !.op = "constructor failed"]
                /\ UNCHANGED <<contexts, registries, onkeydown>>
           ELSE /\ contexts' = contexts + 1
                /\ registries' = Append(registries, <<>>)
                /\ onkeydown' = establishKeyDownListener(onkeydown, contexts + 1)
                /\ ev' = [NoEv EXCEPT !.op = "constructor", !.ctx = contexts + 1]
        /\ UNCHANGED <<injected, attached, ctxvars, server>>

\* context.addKeyListener(key, action) on the page's Context c
AddKeyListenerOn ==
    \E c \in 1..contexts, key \in KeyArgs, action \in ActionArgs :
        /\ registries' = [registries EXCEPT ![c] = addKeyListener(@, key, action)]
        /\ ev' = [NoEv EXCEPT !.op = "addKeyListener", !.ctx = c, !.key = key,
                              !.action = action]
        /\ UNCHANGED <<contexts, injected, attached, onkeydown, ctxvars, server>>

\* context.removeKeyListener(key) on the page's Context c
RemoveKeyListenerOn ==
    \E c \in 1..contexts, key \in KeyArgs :
        /\ registries' = [registries EXCEPT ![c] = removeKeyListener(@, key)]
        /\ ev' = [NoEv EXCEPT !.op = "removeKeyListener", !.ctx = c, !.key = key]
        /\ UNCHANGED <<contexts, injected, attached, onkeydown, ctxvars, server>>

\* the framework attaches component r; the first component fixes the Context
\* that all components are injected with
RegionsAttached ==
    \E r \in Components \ attached, c \in 1..contexts :
        /\ injected \in {0, c}
        /\ injected' = c
        /\ attached' = attached \cup {r}
        /\ registries' = [registries EXCEPT ![c] = RegionsAttach(@, key_actions, r)]
        /\ ev' = [NoEv EXCEPT !.op = "attached", !.ctx = c, !.action = r]
        /\ UNCHANGED <<contexts, onkeydown, ctxvars, server>>

\* the framework detaches component r
RegionsDetached ==
    \E r \in attached :
        /\ attached' = attached \ {r}
        /\ registries' = [registries EXCEPT ![injected] = RegionsDetach(@, key_actions)]
        /\ ev' = [NoEv EXCEPT !.op = "detached", !.ctx = injected, !.action = r]
        /\ UNCHANGED <<contexts, injected, onkeydown, ctxvars, server>>

\* a keydown event reaches window.onkeydown
Keydown ==
    \E event \in Events, handlerThrows \in BOOLEAN :
        /\ onkeydown # Null
        /\ ev' = [NoEv EXCEPT !.op = "keydown", !.ctx = onkeydown.n, !.event = event,
                              !.throws = handlerThrows,
                              !.res = keydownHook(registries[onkeydown.n], event,
                                                  handlerThrows)]
        /\ UNCHANGED <<contexts, registries, injected, attached, onkeydown,
                       ctxvars, server>>

NextPage ==
    \/ NewContext
    \/ AddKeyListenerOn
    \/ RemoveKeyListenerOn
    \/ RegionsAttached
    \/ RegionsDetached
    \/ Keydown

SpecPage == Init /\ [][NextPage]_vars

----------------------------------------------------------------------------
(* The server parameter *)

\* A string is the sequence of its parts; the parts are chosen so that neither
\* "localhost" nor "127.0.0.1" occurs inside another part or across two parts,
\* so that indexOf follows from the parts' lengths.

\* "part".length
Length(part) ==
    CASE part = "localhost" -> 9
      [] part = "127.0.0.1" -> 9
      [] part = "example.org" -> 11
      [] part = "http://" -> 7
      [] part = "https://" -> 8
      [] part = "ws://" -> 5
      [] part = ":4064" -> 5
      [] part = "/" -> 1
      [] part = "iviewer" -> 7

RECURSIVE length(_)
\* str.length
length(str) == IF str = <<>> THEN 0 ELSE Length(Head(str)) + length(Tail(str))

RECURSIVE indexOf(_, _)
\* str.indexOf(part)
indexOf(str, part) ==
    IF str = <<>> THEN -1
    ELSE IF Head(str) = part THEN 0
    ELSE LET rest == indexOf(Tail(str), part)
         IN IF rest < 0 THEN -1 ELSE Length(Head(str)) + rest

\* the server values tried: [scheme] host [port] [path]
Schemes == {<<>>, <<"http://">>, <<"https://">>, <<"ws://">>}

Hosts == {<<"localhost">>, <<"127.0.0.1">>, <<"example.org">>}

Ports == {<<>>, <<":4064">>}

Paths == {<<>>, <<"/", "iviewer">>, <<"/", "localhost">>}

ServerStrings ==
    {scheme \o host \o port \o path :
        scheme \in Schemes, host \in Hosts, port \in Ports, path \in Paths}

\* optParams[REQUEST_PARAMS.SERVER]: absent, a number, "" or a server value
ServerParams ==
    {[type |-> "undefined", parts |-> <<>>], [type |-> "number", parts |-> <<>>],
     [type |-> "string", parts |-> <<>>]}
    \cup {[type |-> "string", parts |-> str] : str \in ServerStrings}

\* this.server, as the constructor derives it from the parameter
normalizedServer(param) ==
    IF param.type # "string" \/ length(param.parts) = 0 THEN <<>>
    ELSE LET isLocal == \/ indexOf(param.parts, "localhost") >= 0
                        \/ indexOf(param.parts, "127.0.0.1") >= 0
             minLen == Length("http://")
             pos == IF indexOf(param.parts, "localhost") >= minLen
                    THEN indexOf(param.parts, "localhost")
                    ELSE indexOf(param.parts, "127.0.0.1")
         IN IF isLocal /\ pos < minLen
            THEN <<"http://">> \o param.parts
            ELSE param.parts

\* any server parameter may be given
InitServer ==
    Start /\ server \in {[NoServer EXCEPT !.param = p] : p \in ServerParams}

\* new Context(bus, id, optParams): the part that derives this.server
ConstructServer ==
    /\ ~server.done
    /\ server' = [server EXCEPT !.stored = normalizedServer(server.param),
                                !.done = TRUE]
    /\ UNCHANGED <<ctxvars, onkeydown, pagevars>>

NextServer == ConstructServer

SpecServer == InitServer /\ [][NextServer]_vars

----------------------------------------------------------------------------
(* Properties *)

\* a Context is there and it was constructed with an EventAggregator: the
\* statements refuted below are refuted on such a Context
Valid == pc = "live" /\ eventbus = "EventAggregator"

\* the calls of the latest step, by their hook
HooksOf(call, name, id) ==
    {i \in DOMAIN call.hooks : call.hooks[i].hook = name /\ call.hooks[i].conf = id}

\* arg names the config id, by id or by reference
Names(arg, id) == arg = Num(id) \/ arg = Conf(id)

\* C1: selected_config is unset or the id of a config held in image_configs.
C1_SelectedIsHeld ==
    Valid =>
        \/ selected_config = Null
        \/ IsNumber(selected_config) /\ ~selected_config.half
              /\ selected_config.n \in Keys(image_configs)

\* C2: removeImageConfig of the selected config unsets selected_config, and
\* removeImageConfig of any other held config leaves selected_config as it was.
C2_RemoveDeselects ==
    [][\A id \in Keys(image_configs) :
          (Valid /\ last'.op = "removeImageConfig" /\ Names(last'.arg, id)) =>
              /\ selected_config = Num(id) => selected_config' = Null
              /\ selected_config # Num(id) => selected_config' = selected_config]_vars

\* C3: when removeImageConfig invokes a config's unbind hook, the config is no
\* key of image_configs and selected_config does not hold its id.
C3_UnbindSeesDeselected ==
    (Valid /\ last.op = "removeImageConfig") =>
        \A i \in DOMAIN last.hooks :
            last.hooks[i].hook = "unbind" =>
                /\ ~last.hooks[i].in_map
                /\ last.hooks[i].selected # Num(last.hooks[i].conf)

\* C4: with useMDI false, after an addImageConfig call that created a config,
\* image_configs holds exactly one entry, the config that call created.
C4_NonMDIAddLeavesNewest ==
    (last.op = "addImageConfig" /\ ~useMDI /\ IsImageConfig(last.ret)) =>
        image_configs = <<last.ret.n>>

C4_Witness ==
    /\ last.op = "addImageConfig" /\ ~useMDI /\ IsImageConfig(last.ret)
    /\ Cardinality({i \in DOMAIN last.hooks : last.hooks[i].hook = "unbind"}) >= 2
    /\ image_configs = <<2>>

\* C5 (as claimed): in every state in which useMDI is false, image_configs
\* holds at most one entry.
C5_NonMDIAtMostOne ==
    (Valid /\ ~useMDI) => Len(image_configs) <= 1

\* C5 (amended): while useMDI is false no operation takes image_configs from at
\* most one entry to more than one, so more than one entry is held with useMDI
\* false only when entries were added while useMDI was true.
C5_NonMDIKeepsAtMostOne ==
    [][(~useMDI /\ ~useMDI' /\ Len(image_configs) <= 1) =>
          Len(image_configs') <= 1]_vars

C5_Witness ==
    /\ pc = "live" /\ ~useMDI /\ last.op = "addImageConfig"
    /\ IsImageConfig(last.ret) /\ next_id >= 2
    /\ Len(image_configs) = 1 /\ Len(last.hooks) = 2

\* C6: in non-MDI mode an addImageConfig that returns a config invokes unbind
\* exactly once on every config held before the call and on no other, invokes
\* bind exactly once, on the new config, and leaves the new config selected.
C6_NonMDIAddHooks ==
    [][(last'.op = "addImageConfig" /\ ~useMDI /\ IsImageConfig(last'.ret)) =>
          /\ \A id \in Keys(image_configs) :
                Cardinality(HooksOf(last', "unbind", id)) = 1
          /\ Cardinality(HooksOf(last', "bind", last'.ret.n)) = 1
          /\ Len(last'.hooks) = Len(image_configs) + 1
          /\ selected_config' = Num(last'.ret.n)]_vars

C6_Witness ==
    /\ last.op = "addImageConfig" /\ ~useMDI /\ IsImageConfig(last.ret)
    /\ Len(last.hooks) = 3
    /\ last.hooks[1].hook = "unbind" /\ last.hooks[2].hook = "unbind"
    /\ last.hooks[3] = [hook |-> "bind", conf |-> last.ret.n, in_map |-> TRUE,
                        selected |-> Num(last.ret.n)]

\* id is a key of image_configs
Held(id) == IsNumber(id) /\ ~id.half /\ id.n \in Keys(image_configs)

\* C7: for an id that is no key of image_configs, getImageConfig, selectConfig
\* and removeImageConfig return none, leave image_configs, selected_config and
\* key_listeners as they were, publish nothing and invoke no hook.
C7_UnknownIdIsNoOp ==
    [][(/\ last'.op \in {"getImageConfig", "selectConfig", "removeImageConfig"}
        /\ ~IsImageConfig(last'.arg)
        /\ ~Held(last'.arg)) =>
          /\ last'.ret \in {Null, Undefined}
          /\ ~last'.thrown
          /\ UNCHANGED <<image_configs, selected_config, key_listeners>>
          /\ last'.published = <<>>
          /\ last'.hooks = <<>>]_vars

C7_Witness ==
    /\ last.op \in {"selectConfig", "removeImageConfig"}
    /\ IsNumber(last.arg) /\ ~Negative(last.arg) /\ ~last.arg.half
    /\ last.arg.n \notin Keys(image_configs)
    /\ last.hooks = <<>> /\ last.ret \in {Null, Undefined}
    /\ Len(image_configs) >= 1 /\ selected_config # Null
    /\ DOMAIN key_listeners # {}
    /\ useMDI

\* C8: removeImageConfig of a reference to a config that is no entry of
\* image_configs changes nothing and does not invoke the config's unbind hook.
C8_StaleReferenceIsNoOp ==
    [][(/\ Valid
        /\ last'.op = "removeImageConfig"
        /\ IsImageConfig(last'.arg)
        /\ last'.arg.n \notin Keys(image_configs)) =>
          /\ last'.hooks = <<>>
          /\ UNCHANGED <<image_configs, selected_config, key_listeners>>]_vars

\* id is a non-negative integer
NonNegativeInteger(id) == IsNumber(id) /\ ~id.half /\ id.n >= 0

\* the call of the step returned null and changed nothing
RejectedUnchanged ==
    /\ last'.ret = Null
    /\ last'.hooks = <<>>
    /\ last'.published = <<>>
    /\ UNCHANGED <<image_configs, selected_config, next_id, key_listeners>>

\* C9 (as claimed): addImageConfig with an id that is no non-negative integer
\* returns null and changes nothing.
C9_NonIntegerRejected ==
    [][(Valid /\ last'.op = "addImageConfig" /\ ~NonNegativeInteger(last'.arg)) =>
          RejectedUnchanged]_vars

\* C9 (amended): addImageConfig with an id that is no number or is negative
\* returns null and changes nothing: in non-MDI mode the held config is neither
\* removed nor unbound and selected_config stays.  (A non-negative number that
\* is no integer, such as 0.5, is accepted.)
C9_NonNumberOrNegativeRejected ==
    [][(last'.op = "addImageConfig"
        /\ (~IsNumber(last'.arg) \/ Negative(last'.arg))) =>
          RejectedUnchanged]_vars

C9_Witness ==
    /\ last.op = "addImageConfig" /\ last.ret = Null
    /\ (~IsNumber(last.arg) \/ Negative(last.arg))
    /\ ~useMDI /\ Len(image_configs) = 1
    /\ selected_config = Num(image_configs[1])

\* C10: no Context is established, and no keydown hook installed, by a
\* construction with a missing or invalid event bus.
C10_InvalidBusFails ==
    (pc = "live" \/ onkeydown # Null) => eventbus = "EventAggregator"

\* C11: a construction with a valid event bus and no initial image id
\* completes, leaves image_configs empty and selected_config unset and installs
\* the keydown hook; with an id, exactly one config exists and it is selected.
C11_InitialIdOptional ==
    (last.op = "constructor" /\ last.bus = "EventAggregator") =>
        /\ last.arg = Null =>
              /\ ~last.thrown /\ pc = "live"
              /\ image_configs = <<>> /\ selected_config = Null
              /\ onkeydown # Null
        /\ (IsNumber(last.arg) /\ ~Negative(last.arg)) =>
              /\ ~last.thrown /\ pc = "live"
              /\ Len(image_configs) = 1
              /\ selected_config = Num(image_configs[1])

\* C12: the keydown hook is the one the page's first Context installed, and no
\* later construction replaces it.
C12_HookInstalledOnce ==
    [][/\ contexts' >= 1 => onkeydown' = Closure(1)
       /\ onkeydown # Null => onkeydown' = onkeydown]_vars

C12_Witness ==
    /\ contexts = 2 /\ ev.op = "constructor" /\ ev.ctx = 2
    /\ onkeydown = Closure(1)

\* the handler that key_listeners regs[c] holds for key code k ("none": none)
Lookup(regs, c, k) == IF k \in DOMAIN regs[c] THEN regs[c][k] ELSE "none"

\* the event's target is an input element
OnInput(event) == ToUpperCase(event.tagName) = "INPUT"

\* C13 (as claimed): a keydown without the control modifier or on an input
\* element invokes no handler and does not suppress the default action; any
\* other keydown whose key code has a handler suppresses the default action,
\* invokes that handler once and returns false.
C13_Dispatch ==
    [][ev'.op = "keydown" =>
          LET e == ev'.event
              r == ev'.res
              h == Lookup(registries, onkeydown.n, e.keyCode)
          IN /\ (~e.ctrlKey \/ OnInput(e)) => (r.invoked = <<>> /\ ~r.prevented)
             /\ (e.ctrlKey /\ ~OnInput(e) /\ h # "none") =>
                    (r.prevented /\ r.invoked = <<h>> /\ r.ret = "false")]_vars

\* C13 (amended): as claimed, but the dispatch returns false only when the
\* handler returns; when the handler throws, the dispatch has suppressed the
\* default action and invoked the handler once and returns undefined; and on a
\* target without a tag name the dispatch does nothing and returns undefined.
C13_DispatchUnlessThrown ==
    [][ev'.op = "keydown" =>
          LET e == ev'.event
              r == ev'.res
              h == Lookup(registries, onkeydown.n, e.keyCode)
          IN /\ (~e.ctrlKey \/ OnInput(e)) => (r.invoked = <<>> /\ ~r.prevented)
             /\ (e.ctrlKey /\ e.tagName = "none") =>
                    (r.invoked = <<>> /\ ~r.prevented /\ r.ret = "undefined")
             /\ (e.ctrlKey /\ e.tagName # "none" /\ ~OnInput(e) /\ h # "none") =>
                    /\ r.prevented /\ r.invoked = <<h>>
                    /\ r.ret = IF ev'.throws THEN "undefined" ELSE "false"]_vars

C13_Witness ==
    /\ ev.op = "keydown" /\ ev.event.ctrlKey /\ ev.event.tagName = "DIV"
    /\ ev.res.invoked # <<>> /\ ev.throws /\ ev.res.ret = "undefined"
    /\ ev.res.prevented

\* the keydown event gets as far as the lookup of its key code
Dispatched(event) == event.ctrlKey /\ event.tagName # "none" /\ ~OnInput(event)

\* the key_listeners of every Context but for key code k of Context c are as before
OthersUnchanged(c, k) ==
    /\ Len(registries') = Len(registries)
    /\ \A d \in DOMAIN registries :
          \A j \in DOMAIN registries[d] \cup DOMAIN registries'[d] :
              (d # c \/ j # k) => Lookup(registries', d, j) = Lookup(registries, d, j)

\* C14: addKeyListener(k, h) makes h the one handler of k and removeKeyListener(k)
\* leaves k without handler, neither touching another key code; a rejected call
\* and a removeKeyListener of an unregistered code change nothing; and a
\* control-keydown for k invokes exactly the handler then held for k, or none
\* when there is none.
C14_LatestHandlerInvoked ==
    [][/\ ev'.op = "addKeyListener" =>
             IF IsNumber(ev'.key) /\ IsFunction(ev'.action)
             THEN /\ Lookup(registries', ev'.ctx, ev'.key.n) = ev'.action
                  /\ OthersUnchanged(ev'.ctx, ev'.key.n)
             ELSE registries' = registries
       /\ ev'.op = "removeKeyListener" =>
             IF IsNumber(ev'.key)
             THEN /\ Lookup(registries', ev'.ctx, ev'.key.n) = "none"
                  /\ OthersUnchanged(ev'.ctx, ev'.key.n)
                  /\ Lookup(registries, ev'.ctx, ev'.key.n) = "none"
                        => registries' = registries
             ELSE registries' = registries
       /\ (ev'.op = "keydown" /\ Dispatched(ev'.event)) =>
             LET h == Lookup(registries, onkeydown.n, ev'.event.keyCode)
             IN /\ ev'.res.invoked = IF h = "none" THEN <<>> ELSE <<h>>
                /\ registries' = registries]_vars

C14_Witness ==
    /\ ev.op = "keydown" /\ Dispatched(ev.event)
    /\ ev.res.invoked = <<"h2">>
    /\ Lookup(registries, onkeydown.n, ev.event.keyCode) = "h2"

\* C15: an error raised by a handler during dispatch does not leave the hook,
\* the dispatch changes neither key_listeners nor the hook, and the keydown
\* after one whose error was caught is dispatched to its registered handler.
C15_HandlerErrorContained ==
    [][ev'.op = "keydown" =>
          /\ ~ev'.res.escaped
          /\ registries' = registries
          /\ onkeydown' = onkeydown
          /\ (ev.op = "keydown" /\ ev.res.caught /\ Dispatched(ev'.event)) =>
                LET h == Lookup(registries, onkeydown.n, ev'.event.keyCode)
                IN ev'.res.invoked = IF h = "none" THEN <<>> ELSE <<h>>]_vars

C15_Witness ==
    /\ ev.op = "keydown" /\ ev.throws /\ ev.res.caught
    /\ ev.res.invoked # <<>> /\ ~ev.res.escaped

\* C16: a selectConfig that passes validation and returns sets selected_config
\* to the id and publishes, with useMDI true, exactly one IMAGE_CONFIG_SELECT
\* event carrying the new selected_config and, with useMDI false, nothing; a
\* selectConfig that fails validation publishes nothing and leaves
\* selected_config as it was.
C16_SelectPublishes ==
    [][last'.op = "selectConfig" =>
          IF Held(last'.arg)
          THEN ~last'.thrown =>
                  /\ selected_config' = last'.arg
                  /\ last'.published =
                        IF useMDI
                        THEN <<[topic |-> "IMAGE_CONFIG_SELECT",
                                image_config |-> selected_config']>>
                        ELSE <<>>
          ELSE /\ last'.published = <<>>
               /\ last'.ret = Null
               /\ selected_config' = selected_config]_vars

C16_Witness ==
    /\ last.op = "selectConfig" /\ useMDI /\ ~last.thrown
    /\ Len(last.published) = 1
    /\ last.published[1].image_config = selected_config
    /\ Len(image_configs) = 2 /\ selected_config = Num(image_configs[1])

\* the key codes of Regions.key_actions
RegionsKeys == {key_actions[i] : i \in DOMAIN key_actions}

\* C17: once every Regions component that was attached has been detached, the
\* key_listeners of their Context hold no handler of a Regions component.
C17_NoHandlerLeaks ==
    (injected # 0 /\ attached = {}) =>
        \A k \in RegionsKeys : Lookup(registries, injected, k) \notin Components

C17_Witness ==
    /\ ev.op = "detached" /\ attached = {} /\ contexts = 2
    /\ DOMAIN registries[injected] = {}

\* the server value names the local host and has no scheme before it
LocalWithoutScheme(str) == str # <<>> /\ Head(str) \in {"localhost", "127.0.0.1"}

\* C18: an absent, non-string or empty server parameter is stored as "", a
\* value that names localhost or 127.0.0.1 without a scheme is stored with
\* "http://" before it, and every other value is stored as given.
C18_ServerNormalised ==
    server.done =>
        server.stored =
            IF server.param.type # "string" THEN <<>>
            ELSE IF LocalWithoutScheme(server.param.parts)
                 THEN <<"http://">> \o server.param.parts
                 ELSE server.param.parts

\* every attached component finds a handler registered for each of its key codes
AllRegistered(att, regs, inj) ==
    att # {} => \A k \in RegionsKeys : Lookup(regs, inj, k) # "none"

\* C19: while a Regions component is attached, each of its five key codes has a
\* handler registered, whatever other Regions components are attached or
\* detached meanwhile.
C19_AttachedKeepsHandlers ==
    [][(ev'.op \in {"attached", "detached"} /\ AllRegistered(attached, registries, injected))
          => AllRegistered(attached', registries', injected')]_vars

\* C20: every keydown is dispatched through the key_listeners of the page's
\* first Context; a handler that only a later Context holds is not invoked.
C20_FirstContextDispatches ==
    [][ev'.op = "keydown" =>
          /\ ev'.ctx = 1
          /\ \A i \in DOMAIN ev'.res.invoked :
                ev'.res.invoked[i] = Lookup(registries, 1, ev'.event.keyCode)]_vars

C20_Witness ==
    /\ ev.op = "keydown" /\ Dispatched(ev.event) /\ contexts = 2
    /\ Lookup(registries, 2, ev.event.keyCode) = "h1"
    /\ Lookup(registries, 1, ev.event.keyCode) = "none"
    /\ ev.res.invoked = <<>>

====
